---- MODULE Spec2Model ----
(***************************************************************************)
(* Session store and store-inventory page of the library UI.               *)
(*                                                                         *)
(* The model follows src/src/contexts/AuthProvider.jsx (the provider that  *)
(* App.jsx mounts) and src/src/services/api.js (fetchData).  The browser's *)
(* localStorage key "user" is the persisted session value.  A login is an  *)
(* async function: it suspends on fetchData("users") and resumes in a      *)
(* later turn, so it is two steps (Login, LoginResolve) and several logins *)
(* can be in flight at once.  The inventory page (pages/Inventory.jsx,     *)
(* src/unnamed/part_003) is followed by the specification SpecInventory.   *)
(*                                                                         *)
(* JavaScript values are modelled as follows.                              *)
(*   - null / absent     : None (the empty sequence); a present value v is *)
(*                         Some(v) = <<v>>.                                *)
(*   - an object         : the sequence of its <<key, value>> pairs in     *)
(*                         insertion order (all keys and values strings).  *)
(*   - a JSON text       : the sequence of its tokens.                     *)
(***************************************************************************)
EXTENDS Integers, Sequences, FiniteSets, TLC

VARIABLES
  pc,          \* "start" before the mount effect ran, then "running", or "crashed"
  user,        \* useState(null): None or Some(identity object)
  storage,     \* localStorage["user"]: None or Some(text)
  pending,     \* logins awaiting fetchData("users"), in order of invocation; with
               \* each, history: stale (a later-invoked login has succeeded) and
               \* loggedOut (logout was called since it was invoked)
  last,        \* history: the last operation, its result and the state it started from
  lastEvent,   \* history: what last set the session since start-up: "login"
               \* (a login returned true), "restore", "logout" or "none"
  beforeReload,\* history: the session and lastEvent at the last page reload
  latestOK,    \* history: identity of the latest-invoked login that has succeeded
  cleanLogout, \* history: a logout happened and no login was invoked or resumed since
  storeId,     \* the inventory page: useParams().storeId, a string
  inventory,   \* the inventory page: the inventory collection of all stores
  page,        \* the inventory page: its useState values (dialogs and form fields)
  columnsMemo, \* the inventory page: the headers of the memoised table columns
  saves,       \* history: the Save clicks on the inventory page so far
  invLast,     \* history: the inventory handler that just ran, the collection and
               \* the session it started from, and what it was applied to
  route,       \* the router: the path of the route that is rendered
  nav,         \* history: the last navigation, where it was to and what made it
  call,        \* a function of the program and the arguments it is called with
  result       \* None, or Some(what the call returned)

authVars == <<pc, user, storage, pending, last, lastEvent, beforeReload, latestOK, cleanLogout>>

pageVars == <<storeId, inventory, page, columnsMemo, invLast, saves>>

routeVars == <<route, nav>>

callVars == <<call, result>>

vars == <<authVars, pageVars, routeVars, callVars>>

(***************************************************************************)
(* Bounds                                                                  *)
(***************************************************************************)
\* number of logins that may be in flight at once
MaxPending == 2

\* number of Save clicks (add, edit, delete) followed on the inventory page
MaxSaves == 3

\* size of the catalogs the list functions are called with
MaxCatalog == 9

\* length of the inventory collections the list functions are called with
MaxEntries == 2

(***************************************************************************)
(* Option values                                                           *)
(***************************************************************************)
None == << >>

Some(v) == <<v>>

IsSome(o) == Len(o) = 1

(***************************************************************************)
(* Objects                                                                 *)
(***************************************************************************)
\* value of obj[key], "undefined" when the object has no such key
Get(obj, key) ==
  IF \E i \in 1..Len(obj) : obj[i][1] = key
    THEN obj[CHOOSE i \in 1..Len(obj) :
               obj[i][1] = key /\ \A j \in 1..(i - 1) : obj[j][1] # key][2]
    ELSE "undefined"

\* const { password: _, ...userWithoutPassword } = foundUser
OmitKey(obj, key) == SelectSeq(obj, LAMBDA pr : pr[1] # key)

(***************************************************************************)
(* The user directory (public/data/users.json): the two documented test    *)
(* accounts, with the documented fields id, username, password, name and   *)
(* email (the name and email values are placeholders).                     *)
(***************************************************************************)
AdminRecord ==
  << <<"id", "1">>, <<"username", "admin">>, <<"password", "admin123">>,
     <<"name", "Admin User">>, <<"email", "admin@example.com">> >>

UserRecord ==
  << <<"id", "2">>, <<"username", "user">>, <<"password", "user123">>,
     <<"name", "Regular User">>, <<"email", "user@example.com">> >>

Directory == <<AdminRecord, UserRecord>>

\* credentials typed into the login form: the two valid pairs, a pair that
\* differs from a valid one only in letter case, and a pair whose username and
\* password belong to two different records
Credentials ==
  { <<"admin", "admin123">>, <<"user", "user123">>, <<"Admin", "admin123">>,
    <<"admin", "user123">> }

\* String.prototype.toLowerCase on the strings of the model
ToLowerCase(s) ==
  CASE s = "Admin" -> "admin"
    [] s = "Admin123" -> "admin123"
    [] OTHER -> s

(***************************************************************************)
(* JSON.stringify / JSON.parse of a flat object                            *)
(***************************************************************************)
RECURSIVE Members(_)
\* the members of an object text: key : value , key : value ...
Members(obj) ==
  IF Len(obj) = 0 THEN << >>
  ELSE IF Len(obj) = 1 THEN <<obj[1][1], ":", obj[1][2]>>
  ELSE <<obj[1][1], ":", obj[1][2], ",">> \o Members(Tail(obj))

\* variant: a serialisation that loses the last member
JSONstringifyDroppingLast(obj) ==
  <<"{">> \o Members(SubSeq(obj, 1, Len(obj) - 1)) \o <<"}">>

JSONstringify(obj) == <<"{">> \o Members(obj) \o <<"}">>

\* is text the JSON text of a flat object
IsObjectText(text) ==
  /\ Len(text) >= 2
  /\ text[1] = "{"
  /\ text[Len(text)] = "}"
  /\ \/ Len(text) = 2
     \/ /\ (Len(text) - 2) % 4 = 3
        /\ \A i \in 2..(Len(text) - 1) :
             /\ (i - 2) % 4 = 1 => text[i] = ":"
             /\ (i - 2) % 4 = 3 => text[i] = ","
             /\ (i - 2) % 4 \in {0, 2} => text[i] \notin {"{", "}", ":", ","}

\* JSON.parse: [ok |-> TRUE, value |-> object] or a SyntaxError (ok = FALSE)
JSONparse(text) ==
  IF IsObjectText(text)
    THEN [ok |-> TRUE,
          value |-> [k \in 1..((Len(text) - 1) \div 4) |->
                       <<text[4 * k - 2], text[4 * k]>>]]
    ELSE [ok |-> FALSE, value |-> << >>]

(***************************************************************************)
(* The data access gateway (services/api.js)                               *)
(***************************************************************************)
\* a parsed JSON body: an array of objects, or a single object
Arr(items) == [type |-> "array", items |-> items, obj |-> << >>]

Obj(o) == [type |-> "object", items |-> << >>, obj |-> o]

\* what the request for the "users" resource can come back with
ResponseNames ==
  {"users-array", "single-object", "empty-array", "network-error", "http-500", "bad-json"}

\* the response: fetch() rejected or not, response.ok, and the outcome of response.json()
Response(name) ==
  CASE name = "users-array" ->
         [rejected |-> FALSE, ok |-> TRUE, json |-> TRUE, data |-> Arr(Directory)]
    [] name = "single-object" ->
         [rejected |-> FALSE, ok |-> TRUE, json |-> TRUE, data |-> Obj(UserRecord)]
    [] name = "empty-array" ->
         [rejected |-> FALSE, ok |-> TRUE, json |-> TRUE, data |-> Arr(<< >>)]
    [] name = "network-error" ->
         [rejected |-> TRUE, ok |-> FALSE, json |-> FALSE, data |-> Arr(<< >>)]
    [] name = "http-500" ->
         [rejected |-> FALSE, ok |-> FALSE, json |-> TRUE, data |-> Obj(<< <<"error", "Internal Server Error">> >>)]
    [] name = "bad-json" ->
         [rejected |-> FALSE, ok |-> TRUE, json |-> FALSE, data |-> Arr(<< >>)]

\* variant: the parsed body is returned as it is
fetchDataUnwrapped(resp) ==
  IF resp.rejected THEN Arr(<< >>)
  ELSE IF ~resp.ok THEN Arr(<< >>)
  ELSE IF ~resp.json THEN Arr(<< >>)
  ELSE resp.data

\* fetchData after the response arrived: any failure is caught and becomes [],
\* a body that is not an array is wrapped in one
fetchData(resp) ==
  IF resp.rejected THEN Arr(<< >>)
  ELSE IF ~resp.ok THEN Arr(<< >>)
  ELSE IF ~resp.json THEN Arr(<< >>)
  ELSE IF resp.data.type = "array" THEN resp.data ELSE Arr(<<resp.data.obj>>)

(***************************************************************************)
(* The session store (contexts/AuthProvider.jsx)                           *)
(***************************************************************************)
\* variant: a comparison that ignores letter case
matchesIgnoringCase(u, username, password) ==
  /\ ToLowerCase(Get(u, "username")) = ToLowerCase(username)
  /\ ToLowerCase(Get(u, "password")) = ToLowerCase(password)

\* (u) => u.username === username && u.password === password
matches(u, username, password) ==
  /\ Get(u, "username") = username
  /\ Get(u, "password") = password

\* users.find(...): Some(first matching element) or None (undefined)
find(items, username, password) ==
  IF \E i \in 1..Len(items) : matches(items[i], username, password)
    THEN Some(items[CHOOSE i \in 1..Len(items) :
                      /\ matches(items[i], username, password)
                      /\ \A j \in 1..(i - 1) : ~matches(items[j], username, password)])
    ELSE None

\* variant: the found record is installed and persisted as it is
loginKeepingPassword(users, username, password, u, s) ==
  IF users.type = "array" /\ IsSome(find(users.items, username, password))
    THEN LET w == find(users.items, username, password)[1]
         IN  [ret |-> TRUE, user |-> Some(w), storage |-> Some(JSONstringify(w))]
    ELSE [ret |-> FALSE, user |-> u, storage |-> s]

\* variant: a failed login signs the current user out
loginClearingOnFailure(users, username, password, u, s) ==
  IF users.type = "array" /\ IsSome(find(users.items, username, password))
    THEN LET w == OmitKey(find(users.items, username, password)[1], "password")
         IN  [ret |-> TRUE, user |-> Some(w), storage |-> Some(JSONstringify(w))]
    ELSE [ret |-> FALSE, user |-> None, storage |-> None]

\* login from the point where fetchData("users") has resolved to users, in the
\* session state (u, s): the value returned and the session state left behind.
\* users.find on a value that is not an array throws a TypeError, which the
\* catch turns into false.
login(users, username, password, u, s) ==
  IF users.type # "array"
    THEN [ret |-> FALSE, user |-> u, storage |-> s]
    ELSE LET foundUser == find(users.items, username, password)
         IN  IF IsSome(foundUser)
               THEN LET userWithoutPassword == OmitKey(foundUser[1], "password")
                    IN  [ret |-> TRUE,
                         user |-> Some(userWithoutPassword),
                         storage |-> Some(JSONstringify(userWithoutPassword))]
               ELSE [ret |-> FALSE, user |-> u, storage |-> s]

\* variant: logout without localStorage.removeItem
logoutKeepingStorage(u, s) == [user |-> None, storage |-> s]

\* variant: logout without setUser(null)
logoutKeepingUser(u, s) == [user |-> u, storage |-> None]

\* logout: setUser(null); localStorage.removeItem("user")
logout(u, s) == [user |-> None, storage |-> None]

\* variant: a mount effect that never installs the persisted value
restoreIgnoringStorage(u, s) == [threw |-> FALSE, user |-> u, storage |-> s]

\* the mount effect: reads the persisted value and, when it is a non-empty
\* string, installs JSON.parse of it; a SyntaxError is not caught
restore(u, s) ==
  IF IsSome(s) /\ s[1] # << >>
    THEN IF JSONparse(s[1]).ok
           THEN [threw |-> FALSE, user |-> Some(JSONparse(s[1]).value), storage |-> s]
           ELSE [threw |-> TRUE, user |-> u, storage |-> s]
    ELSE [threw |-> FALSE, user |-> u, storage |-> s]

\* isAuthenticated: !!user
isAuthenticated == IsSome(user)

(***************************************************************************)
(* Initial state: a fresh page load.  The persisted value is whatever an   *)
(* earlier visit left (nothing, or the identity of a logged-in user) or a  *)
(* value the program did not write.                                        *)
(***************************************************************************)
Identity(record) == OmitKey(record, "password")

CorruptTexts == { <<"undefined">>, <<"{", "id", ":", "1", ",">> }

InitialStorage ==
  {None} \cup {Some(JSONstringify(Identity(Directory[i]))) : i \in 1..Len(Directory)}
         \cup {Some(t) : t \in CorruptTexts}

NoNav == [to |-> "none", by |-> "none"]

NoOp == [op |-> "Init", ret |-> "none", cred |-> <<"", "">>, resp |-> "none",
         stale |-> FALSE, loggedOut |-> FALSE, preUser |-> None, preStorage |-> None]

Init ==
  /\ pc = "start"
  /\ user = None
  /\ storage \in InitialStorage
  /\ pending = << >>
  /\ last = NoOp
  /\ lastEvent = "none"
  /\ beforeReload = [user |-> None, by |-> "none"]
  /\ latestOK = None
  /\ cleanLogout = FALSE
  \* no inventory page is mounted while the session store is followed on its own
  /\ storeId = "1"
  /\ inventory = << >>
  /\ page = << >>
  /\ columnsMemo = << >>
  /\ invLast = << >>
  /\ saves = 0
  /\ route = "/"
  /\ nav = NoNav
  /\ call = << >>
  /\ result = None

(***************************************************************************)
(* Actions                                                                 *)
(***************************************************************************)
\* the mount effect of AuthProvider runs once after the first render
Restore ==
  /\ pc = "start"
  /\ LET s == storage
         r == restore(user, s)
     IN  /\ pc' = IF r.threw THEN "crashed" ELSE "running"
         /\ user' = r.user
         /\ storage' = r.storage
         /\ last' = [NoOp EXCEPT !.op = "Restore",
                                 !.ret = IF r.threw THEN "throw" ELSE "none",
                                 !.preUser = user, !.preStorage = storage]
         /\ lastEvent' = IF ~r.threw /\ IsSome(s) /\ s[1] # << >> THEN "restore" ELSE lastEvent
  /\ UNCHANGED <<pending, beforeReload, latestOK, cleanLogout>>

\* login(username, password) is called and suspends on fetchData("users")
Login(cred) ==
  /\ pc = "running"
  /\ Len(pending) < MaxPending
  /\ pending' = Append(pending, [cred |-> cred, stale |-> FALSE, loggedOut |-> FALSE])
  /\ last' = [NoOp EXCEPT !.op = "Login", !.cred = cred,
                          !.preUser = user, !.preStorage = storage]
  /\ cleanLogout' = FALSE
  /\ UNCHANGED <<pc, user, storage, lastEvent, beforeReload, latestOK>>

\* the response of the i-th login in flight arrives and that login resumes
LoginResolve(i, name) ==
  /\ pc = "running"
  /\ i \in 1..Len(pending)
  /\ LET c == pending[i]
         r == login(fetchData(Response(name)), c.cred[1], c.cred[2], user, storage)
     IN  /\ user' = r.user
         /\ storage' = r.storage
         /\ pending' = [j \in 1..(Len(pending) - 1) |->
                          IF j < i
                            THEN [pending[j] EXCEPT !.stale = @ \/ r.ret]
                            ELSE pending[j + 1]]
         /\ last' = [NoOp EXCEPT !.op = "LoginResolve",
                                 !.ret = IF r.ret THEN "true" ELSE "false",
                                 !.cred = c.cred, !.resp = name, !.stale = c.stale,
                                 !.loggedOut = c.loggedOut,
                                 !.preUser = user, !.preStorage = storage]
         /\ lastEvent' = IF r.ret THEN "login" ELSE lastEvent
         /\ latestOK' = IF r.ret /\ ~c.stale THEN r.user ELSE latestOK
  /\ cleanLogout' = FALSE
  /\ UNCHANGED <<pc, beforeReload>>

\* logout() is called (Topbar's Sign Out)
Logout ==
  /\ pc = "running"
  /\ LET r == logout(user, storage)
     IN  /\ user' = r.user
         /\ storage' = r.storage
  /\ pending' = [j \in 1..Len(pending) |->
                    [pending[j] EXCEPT !.stale = FALSE, !.loggedOut = TRUE]]
  /\ last' = [NoOp EXCEPT !.op = "Logout", !.preUser = user, !.preStorage = storage]
  /\ lastEvent' = "logout"
  /\ latestOK' = None
  /\ cleanLogout' = TRUE
  /\ UNCHANGED <<pc, beforeReload>>

\* the page is reloaded: component state and logins in flight are gone,
\* localStorage stays
Reload ==
  /\ pc \in {"running", "crashed"}
  /\ pc' = "start"
  /\ user' = None
  /\ pending' = << >>
  /\ last' = [NoOp EXCEPT !.op = "Reload", !.preUser = user, !.preStorage = storage]
  /\ lastEvent' = "none"
  /\ beforeReload' = [user |-> user, by |-> lastEvent]
  /\ latestOK' = None
  /\ UNCHANGED <<storage, cleanLogout>>

Next ==
  \/ Restore /\ UNCHANGED <<pageVars, routeVars, callVars>>
  \/ \E cred \in Credentials :
       Login(cred) /\ UNCHANGED <<pageVars, routeVars, callVars>>
  \/ \E i \in 1..MaxPending, name \in ResponseNames :
       LoginResolve(i, name) /\ UNCHANGED <<pageVars, routeVars, callVars>>
  \/ Logout /\ UNCHANGED <<pageVars, routeVars, callVars>>
  \/ Reload /\ UNCHANGED <<pageVars, routeVars, callVars>>

Spec == Init /\ [][Next]_vars

(***************************************************************************)
(* The store-inventory page (pages/Inventory.jsx)                          *)
(*                                                                         *)
(* Text typed by the user (the dialog's search term) and book names are    *)
(* sequences of characters; ids and prices are integers, and the strings   *)
(* that hold them (the route parameter, the select's value, the price      *)
(* inputs) are converted by parseInt / parseFloat / toString.              *)
(***************************************************************************)
\* the book catalog the page receives from useLibraryData
books ==
  << [id |-> 1, name |-> <<"D", "u", "n", "e">>, author_id |-> 1, page_count |-> 412],
     [id |-> 2, name |-> <<"E", "m", "m", "a">>, author_id |-> 2, page_count |-> 474] >>

\* the values of the route parameter :storeId
StoreIds == {"1", "2"}

\* the inventory collection as loaded: store 1 stocks book 1, store 2 book 2
InitialInventories ==
  { << [id |-> 1, store_id |-> 1, book_id |-> 1, price |-> 9],
       [id |-> 2, store_id |-> 2, book_id |-> 2, price |-> 9] >> }

\* what the user types into a price input (type="number": a number or nothing)
PriceTexts == {"", "9", "-5"}

\* what the user types into the dialog's search box
SearchTerms == { << >>, <<"d", "u">> }

\* parseInt on the id strings of the model
parseInt(str) ==
  CASE str = "1" -> 1
    [] str = "2" -> 2

\* parseFloat on the price strings of the model
parseFloat(str) ==
  CASE str = "9" -> 9
    [] str = "-5" -> -5

\* Number.prototype.toString on the prices of the model
toString(n) ==
  CASE n = 9 -> "9"
    [] n = -5 -> "-5"

\* String.prototype.toLowerCase, character by character
toLowerCase(chars) ==
  [i \in 1..Len(chars) |->
     CASE chars[i] = "A" -> "a"
       [] chars[i] = "D" -> "d"
       [] chars[i] = "E" -> "e"
       [] chars[i] = "K" -> "k"
       [] chars[i] = "U" -> "u"
       [] OTHER -> chars[i]]

\* String.prototype.trim
RECURSIVE trim(_)
trim(chars) ==
  IF Len(chars) = 0 THEN chars
  ELSE IF chars[1] = " " THEN trim(Tail(chars))
  ELSE IF chars[Len(chars)] = " " THEN trim(SubSeq(chars, 1, Len(chars) - 1))
  ELSE chars

\* String.prototype.includes
includes(chars, part) ==
  \E k \in 0..(Len(chars) - Len(part)) : SubSeq(chars, k + 1, k + Len(part)) = part

\* the rows of the table: the books of the store with their prices, as
\* useLibraryData joins them (row.id is the book's id)
storeBooks(inv, sid) ==
  LET mine == SelectSeq(inv, LAMBDA item : item.store_id = parseInt(sid))
  IN  [i \in 1..Len(mine) |-> [id |-> mine[i].book_id, price |-> mine[i].price]]

\* variant: a book stocked by any store is excluded
availableBooksAnyStore(bks, inv, sid) ==
  SelectSeq(bks, LAMBDA book : \A i \in 1..Len(inv) : inv[i].book_id # book.id)

\* availableBooks: the catalog books with no entry for the store
availableBooks(bks, inv, sid) ==
  LET booksInStore ==
        {inv[i].book_id : i \in {j \in 1..Len(inv) : inv[j].store_id = parseInt(sid)}}
  IN  SelectSeq(bks, LAMBDA book : book.id \notin booksInStore)

\* the size of the dialog's candidate list
DropdownLimit == 7

\* filteredAvailableBooks: the candidates of the add dialog
filteredAvailableBooks(avail, term) ==
  LET filtered ==
        IF trim(term) # << >>
          THEN SelectSeq(avail,
                 LAMBDA book : includes(toLowerCase(book.name), toLowerCase(term)))
          ELSE avail
  IN  SubSeq(filtered, 1, IF Len(filtered) < DropdownLimit THEN Len(filtered)
                                                           ELSE DropdownLimit)

\* columns: the headers of the table's columns
columns(auth) ==
  LET baseColumns == <<"Book Id", "Name", "Pages", "Author", "Price">>
  IN  IF auth THEN Append(baseColumns, "Actions") ELSE baseColumns

\* variant: a memo whose dependencies leave out isAuthenticated
useMemoColumnsStale(memo, before, after) == memo

\* useMemo(..., [authorMap, isAuthenticated]): recomputed when the flag changed
useMemoColumns(memo, before, after) ==
  IF after # before THEN columns(after) ELSE memo

\* the useState values of a freshly mounted page
InitialPage ==
  [showAddModal |-> FALSE, showEditModal |-> FALSE, showDeleteModal |-> FALSE,
   editingBook |-> None, editPrice |-> "", deletingBook |-> None,
   selectedBookId |-> "", newPrice |-> "", bookSearchTerm |-> << >>]

openAddModal(pg) == [pg EXCEPT !.showAddModal = TRUE]

closeAddModal(pg) ==
  [pg EXCEPT !.showAddModal = FALSE, !.selectedBookId = "", !.newPrice = "",
             !.bookSearchTerm = << >>]

openEditModal(pg, book) ==
  [pg EXCEPT !.editingBook = Some(book), !.editPrice = toString(book.price),
             !.showEditModal = TRUE]

closeEditModal(pg) ==
  [pg EXCEPT !.showEditModal = FALSE, !.editingBook = None, !.editPrice = ""]

openDeleteModal(pg, book) ==
  [pg EXCEPT !.deletingBook = Some(book), !.showDeleteModal = TRUE]

closeDeleteModal(pg) ==
  [pg EXCEPT !.showDeleteModal = FALSE, !.deletingBook = None]

\* handleAddBook: the collection and the page state it leaves
handleAddBook(inv, pg, sid) ==
  IF pg.selectedBookId # "" /\ pg.newPrice # ""
    THEN LET newItem == [id |-> Len(inv) + 1,
                         store_id |-> parseInt(sid),
                         book_id |-> parseInt(pg.selectedBookId),
                         price |-> parseFloat(pg.newPrice)]
         IN  [inventory |-> Append(inv, newItem), page |-> closeAddModal(pg)]
    ELSE [inventory |-> inv, page |-> pg]

\* handleEditPrice: the updated collection
handleEditPrice(inv, sid, bookId, newPrice) ==
  [i \in 1..Len(inv) |->
     IF inv[i].store_id = parseInt(sid) /\ inv[i].book_id = bookId
       THEN [inv[i] EXCEPT !.price = newPrice]
       ELSE inv[i]]

handleSaveEdit(inv, pg, sid) ==
  IF IsSome(pg.editingBook) /\ pg.editPrice # ""
    THEN [inventory |-> handleEditPrice(inv, sid, pg.editingBook[1].id,
                                        parseFloat(pg.editPrice)),
          page |-> closeEditModal(pg)]
    ELSE [inventory |-> inv, page |-> pg]

\* variant: the second call appends to what the first one set (an updater
\* function, setInventory(prev => [...prev, newItem]))
doubleSaveChained(inv, pg, sid) ==
  LET first == handleAddBook(inv, pg, sid)
  IN  [inventory |-> handleAddBook(first.inventory, pg, sid).inventory,
       page |-> first.page]

\* handleAddBook called twice from one render: both calls read the inventory,
\* selectedBookId and newPrice of that render, and the later setInventory and
\* set-state calls replace the earlier ones
doubleSave(inv, pg, sid) ==
  LET first == handleAddBook(inv, pg, sid)
      second == handleAddBook(inv, pg, sid)
  IN  second

\* variant: every entry of the book is removed, whatever its store
handleDeleteBookAnyStore(inv, pg, sid, bookId) ==
  [inventory |-> SelectSeq(inv, LAMBDA item : item.book_id # bookId),
   page |-> closeDeleteModal(pg)]

\* variant: the dialog closes and the entry stays
handleDeleteBookKeepingEntry(inv, pg, sid, bookId) ==
  [inventory |-> inv, page |-> closeDeleteModal(pg)]

handleDeleteBook(inv, pg, sid, bookId) ==
  [inventory |->
     SelectSeq(inv, LAMBDA item :
                 ~(item.store_id = parseInt(sid) /\ item.book_id = bookId)),
   page |-> closeDeleteModal(pg)]

confirmDelete(inv, pg, sid) ==
  IF IsSome(pg.deletingBook)
    THEN handleDeleteBook(inv, pg, sid, pg.deletingBook[1].id)
    ELSE [inventory |-> inv, page |-> pg]

\* a dialog is shown: it covers the page, whose buttons cannot be clicked
dialogOpen == page.showAddModal \/ page.showEditModal \/ page.showDeleteModal

NoInvOp == [op |-> "none", auth |-> FALSE, pre |-> << >>, store |-> 0, book |-> 0,
            text |-> ""]

\* the first render of the page on /store/:storeId, with the data loaded, in
\* the browser of a visitor or of a user who signed in earlier: the provider's
\* restore effect has not run yet
InitInventory ==
  /\ pc = "start"
  /\ user = None
  /\ storage \in {None, Some(JSONstringify(Identity(AdminRecord)))}
  /\ pending = << >>
  /\ last = NoOp
  /\ lastEvent = "none"
  /\ beforeReload = [user |-> None, by |-> "none"]
  /\ latestOK = None
  /\ cleanLogout = FALSE
  /\ storeId \in StoreIds
  /\ inventory \in InitialInventories
  /\ page = InitialPage
  /\ columnsMemo = columns(isAuthenticated)
  /\ invLast = NoInvOp
  /\ saves = 0
  /\ route = "/store/:storeId"
  /\ nav = NoNav
  /\ call = << >>
  /\ result = None

\* the page re-renders after a change of the session
Rerender ==
  /\ columnsMemo' = useMemoColumns(columnsMemo, isAuthenticated, IsSome(user'))
  /\ invLast' = NoInvOp
  /\ UNCHANGED <<storeId, inventory, page, saves, routeVars, callVars>>

\* the "Add to inventory" button of the Header, shown to authenticated users
OpenAddModal ==
  /\ pc = "running" /\ isAuthenticated /\ ~dialogOpen
  /\ page' = openAddModal(page)
  /\ invLast' = NoInvOp
  /\ UNCHANGED <<authVars, routeVars, callVars, storeId, inventory, columnsMemo, saves>>

SetBookSearchTerm(term) ==
  /\ pc = "running" /\ page.showAddModal
  /\ page' = [page EXCEPT !.bookSearchTerm = term]
  /\ invLast' = NoInvOp
  /\ UNCHANGED <<authVars, routeVars, callVars, storeId, inventory, columnsMemo, saves>>

\* the select: the placeholder option or one of the candidates
SelectBook(value) ==
  /\ pc = "running" /\ page.showAddModal
  /\ LET options ==
           filteredAvailableBooks(availableBooks(books, inventory, storeId),
                                  page.bookSearchTerm)
     IN  IF value = "" THEN TRUE
         ELSE \E i \in 1..Len(options) : parseInt(value) = options[i].id
  /\ page' = [page EXCEPT !.selectedBookId = value]
  /\ invLast' = NoInvOp
  /\ UNCHANGED <<authVars, routeVars, callVars, storeId, inventory, columnsMemo, saves>>

SetNewPrice(text) ==
  /\ pc = "running" /\ page.showAddModal
  /\ page' = [page EXCEPT !.newPrice = text]
  /\ invLast' = NoInvOp
  /\ UNCHANGED <<authVars, routeVars, callVars, storeId, inventory, columnsMemo, saves>>

\* Save of the add dialog
SaveAdd ==
  /\ pc = "running" /\ page.showAddModal
  /\ saves < MaxSaves
  /\ LET r == handleAddBook(inventory, page, storeId)
     IN  /\ inventory' = r.inventory
         /\ page' = r.page
  /\ invLast' = [op |-> "add", auth |-> isAuthenticated, pre |-> inventory,
                 store |-> parseInt(storeId),
                 book |-> IF page.selectedBookId = "" THEN 0
                          ELSE parseInt(page.selectedBookId),
                 text |-> page.newPrice]
  /\ saves' = saves + 1
  /\ UNCHANGED <<authVars, routeVars, callVars, storeId, columnsMemo>>

\* Save of the add dialog, clicked twice before the page re-renders
SaveAddTwice ==
  /\ pc = "running" /\ page.showAddModal
  /\ saves + 1 < MaxSaves
  /\ LET r == doubleSave(inventory, page, storeId)
     IN  /\ inventory' = r.inventory
         /\ page' = r.page
  /\ invLast' = [op |-> "add twice", auth |-> isAuthenticated, pre |-> inventory,
                 store |-> parseInt(storeId),
                 book |-> IF page.selectedBookId = "" THEN 0
                          ELSE parseInt(page.selectedBookId),
                 text |-> page.newPrice]
  /\ saves' = saves + 2
  /\ UNCHANGED <<authVars, routeVars, callVars, storeId, columnsMemo>>

CancelAdd ==
  /\ pc = "running" /\ page.showAddModal
  /\ page' = closeAddModal(page)
  /\ invLast' = NoInvOp
  /\ UNCHANGED <<authVars, routeVars, callVars, storeId, inventory, columnsMemo, saves>>

\* the edit button of a row, in the Actions column
OpenEditModal(i) ==
  /\ pc = "running" /\ ~dialogOpen
  /\ \E c \in 1..Len(columnsMemo) : columnsMemo[c] = "Actions"
  /\ i \in 1..Len(storeBooks(inventory, storeId))
  /\ page' = openEditModal(page, storeBooks(inventory, storeId)[i])
  /\ invLast' = NoInvOp
  /\ UNCHANGED <<authVars, routeVars, callVars, storeId, inventory, columnsMemo, saves>>

SetEditPrice(text) ==
  /\ pc = "running" /\ page.showEditModal
  /\ page' = [page EXCEPT !.editPrice = text]
  /\ invLast' = NoInvOp
  /\ UNCHANGED <<authVars, routeVars, callVars, storeId, inventory, columnsMemo, saves>>

\* Save of the edit dialog
SaveEdit ==
  /\ pc = "running" /\ page.showEditModal
  /\ saves < MaxSaves
  /\ LET r == handleSaveEdit(inventory, page, storeId)
     IN  /\ inventory' = r.inventory
         /\ page' = r.page
  /\ invLast' = [op |-> "edit", auth |-> isAuthenticated, pre |-> inventory,
                 store |-> parseInt(storeId),
                 book |-> IF IsSome(page.editingBook) THEN page.editingBook[1].id ELSE 0,
                 text |-> page.editPrice]
  /\ saves' = saves + 1
  /\ UNCHANGED <<authVars, routeVars, callVars, storeId, columnsMemo>>

CancelEdit ==
  /\ pc = "running" /\ page.showEditModal
  /\ page' = closeEditModal(page)
  /\ invLast' = NoInvOp
  /\ UNCHANGED <<authVars, routeVars, callVars, storeId, inventory, columnsMemo, saves>>

\* the delete button of a row, in the Actions column
OpenDeleteModal(i) ==
  /\ pc = "running" /\ ~dialogOpen
  /\ \E c \in 1..Len(columnsMemo) : columnsMemo[c] = "Actions"
  /\ i \in 1..Len(storeBooks(inventory, storeId))
  /\ page' = openDeleteModal(page, storeBooks(inventory, storeId)[i])
  /\ invLast' = NoInvOp
  /\ UNCHANGED <<authVars, routeVars, callVars, storeId, inventory, columnsMemo, saves>>

\* Save of the delete dialog
ConfirmDelete ==
  /\ pc = "running" /\ page.showDeleteModal
  /\ saves < MaxSaves
  /\ LET r == confirmDelete(inventory, page, storeId)
     IN  /\ inventory' = r.inventory
         /\ page' = r.page
  /\ invLast' = [op |-> "delete", auth |-> isAuthenticated, pre |-> inventory,
                 store |-> parseInt(storeId),
                 book |-> IF IsSome(page.deletingBook) THEN page.deletingBook[1].id ELSE 0,
                 text |-> ""]
  /\ saves' = saves + 1
  /\ UNCHANGED <<authVars, routeVars, callVars, storeId, columnsMemo>>

CancelDelete ==
  /\ pc = "running" /\ page.showDeleteModal
  /\ page' = closeDeleteModal(page)
  /\ invLast' = NoInvOp
  /\ UNCHANGED <<authVars, routeVars, callVars, storeId, inventory, columnsMemo, saves>>

\* the route changes to another store (a jump in the browser's history): the
\* same route element stays mounted, so the page keeps its state
ChangeStore(sid) ==
  /\ pc = "running" /\ sid # storeId
  /\ storeId' = sid
  /\ invLast' = NoInvOp
  /\ UNCHANGED <<authVars, routeVars, callVars, inventory, page, columnsMemo, saves>>

NextInventory ==
  \/ OpenAddModal
  \/ \E term \in SearchTerms : SetBookSearchTerm(term)
  \/ \E value \in {"", "1", "2"} : SelectBook(value)
  \/ \E text \in PriceTexts : SetNewPrice(text)
  \/ SaveAdd
  \/ SaveAddTwice
  \/ CancelAdd
  \/ \E i \in 1..Len(inventory) : OpenEditModal(i)
  \/ \E text \in PriceTexts : SetEditPrice(text)
  \/ SaveEdit
  \/ CancelEdit
  \/ \E i \in 1..Len(inventory) : OpenDeleteModal(i)
  \/ ConfirmDelete
  \/ CancelDelete
  \/ \E sid \in StoreIds : ChangeStore(sid)
  \/ Restore /\ Rerender
  \/ isAuthenticated /\ Logout /\ Rerender

SpecInventory == InitInventory /\ [][NextInventory]_vars

(***************************************************************************)
(* The routes (App.jsx) and the top bar (components/Topbar.jsx)            *)
(*                                                                         *)
(* A navigation settles at once: when the element of the route is a        *)
(* redirect, the router is at the redirect's target before the next event. *)
(***************************************************************************)
\* the paths followed: home, the login page and one more page of the layout
Paths == {"/", "/login", "/books"}

\* variant: the login route renders the login page unguarded
routeElementUnguarded(path) ==
  IF path = "/login"
    THEN [guarded |-> FALSE, layout |-> FALSE, page |-> "Login"]
    ELSE [guarded |-> FALSE, layout |-> TRUE, page |-> path]

\* the element of a route: the login page inside ProtectedRoute and outside
\* the Layout, every other page inside the Layout
routeElement(path) ==
  IF path = "/login"
    THEN [guarded |-> TRUE, layout |-> FALSE, page |-> "Login"]
    ELSE [guarded |-> FALSE, layout |-> TRUE, page |-> path]

\* ProtectedRoute: a redirect to home for a signed-in user, else its child
ProtectedRoute(auth, child) == IF auth THEN "Navigate to /" ELSE child

\* what a route renders for a session
screen(path, auth) ==
  LET e == routeElement(path)
  IN  IF e.guarded THEN ProtectedRoute(auth, e.page) ELSE e.page

\* where the router is once a navigation to a path has settled
Routed(path, auth) == IF screen(path, auth) = "Navigate to /" THEN "/" ELSE path

\* Topbar: the control on its right, and the name shown next to it
Topbar(auth, u) ==
  IF auth THEN [control |-> "Sign Out", name |-> Get(u[1], "name")]
  ELSE [control |-> "Sign In", name |-> ""]

\* the Layout, and the Topbar in it, is on the screen
TopbarShown == pc = "running" /\ routeElement(route).layout

\* variant: Sign Out navigates and leaves the session alone
handleLogoutNavigateOnly(u, s) == [user |-> u, storage |-> s, to |-> "/"]

\* handleLogout of the Topbar: logout(), then navigate("/")
handleLogout(u, s) ==
  LET r == logout(u, s) IN [user |-> r.user, storage |-> r.storage, to |-> "/"]

\* the application is opened at a path, with whatever localStorage holds
InitRoutes ==
  /\ pc = "start"
  /\ user = None
  /\ storage \in InitialStorage
  /\ pending = << >>
  /\ last = NoOp
  /\ lastEvent = "none"
  /\ beforeReload = [user |-> None, by |-> "none"]
  /\ latestOK = None
  /\ cleanLogout = FALSE
  /\ storeId = "1"
  /\ inventory = << >>
  /\ page = << >>
  /\ columnsMemo = << >>
  /\ invLast = << >>
  /\ saves = 0
  /\ \E path \in Paths :
       /\ route = path
       /\ nav = [to |-> path, by |-> "url"]
  /\ call = << >>
  /\ result = None

\* the session changed: the route that is rendered is evaluated again
Reroute ==
  /\ route' = Routed(route, IsSome(user'))
  /\ UNCHANGED <<nav, pageVars, callVars>>

\* a path is typed into the address bar: the application is loaded again
OpenUrl(path) ==
  /\ Reload
  /\ route' = path
  /\ nav' = [to |-> path, by |-> "url"]
  /\ UNCHANGED <<pageVars, callVars>>

\* the browser's back or forward button leads to a path
HistoryGo(path) ==
  /\ pc = "running"
  /\ route' = Routed(path, isAuthenticated)
  /\ nav' = [to |-> path, by |-> "history"]
  /\ UNCHANGED <<authVars, pageVars, callVars>>

\* the Sign In button of the Topbar
ClickSignIn ==
  /\ TopbarShown
  /\ Topbar(isAuthenticated, user).control = "Sign In"
  /\ route' = Routed("/login", isAuthenticated)
  /\ nav' = [to |-> "/login", by |-> "signin"]
  /\ UNCHANGED <<authVars, pageVars, callVars>>

\* the Sign Out button of the Topbar
ClickSignOut ==
  /\ TopbarShown
  /\ Topbar(isAuthenticated, user).control = "Sign Out"
  /\ LET r == handleLogout(user, storage)
     IN  /\ user' = r.user
         /\ storage' = r.storage
         /\ route' = Routed(r.to, IsSome(r.user))
         /\ nav' = [to |-> r.to, by |-> "signout"]
  /\ pending' = [j \in 1..Len(pending) |->
                    [pending[j] EXCEPT !.stale = FALSE, !.loggedOut = TRUE]]
  /\ last' = [NoOp EXCEPT !.op = "Logout", !.preUser = user, !.preStorage = storage]
  /\ lastEvent' = "logout"
  /\ latestOK' = None
  /\ cleanLogout' = TRUE
  /\ UNCHANGED <<pc, beforeReload, pageVars, callVars>>

\* the form of the login page is submitted
SubmitLogin(cred) ==
  /\ screen(route, isAuthenticated) = "Login"
  /\ Login(cred)
  /\ UNCHANGED <<routeVars, pageVars, callVars>>

NextRoutes ==
  \/ Restore /\ Reroute
  \/ \E path \in Paths : OpenUrl(path)
  \/ \E path \in Paths : HistoryGo(path)
  \/ ClickSignIn
  \/ ClickSignOut
  \/ \E cred \in Credentials : SubmitLogin(cred)
  \/ \E i \in 1..MaxPending, name \in ResponseNames : LoginResolve(i, name) /\ Reroute

SpecRoutes == InitRoutes /\ [][NextRoutes]_vars

(***************************************************************************)
(* The functions of the program, called on their own                       *)
(*                                                                         *)
(* call holds the name of a function and its arguments, result what the    *)
(* function returned for them.                                             *)
(***************************************************************************)
\* the names of the authors, as authorMap[author_id].name gives them
authorMap == <<[name |-> <<"K", "a", "t", "e">>], [name |-> <<"A", "d", "a">>]>>

\* the i-th book of a catalog
CatalogBook(i) ==
  [id |-> i,
   name |-> IF i % 3 = 0 THEN <<"E", "m", "m", "a">> ELSE <<"D", "u", "n", "e">>,
   author_id |-> 1 + (i % 2),
   page_count |-> 100 + i]

\* catalogs: the first n books, and three books in an order that is not by id
Catalogs ==
  {[i \in 1..n |-> CatalogBook(i)] : n \in 0..MaxCatalog}
    \cup { <<CatalogBook(3), CatalogBook(1), CatalogBook(2)>> }

\* an inventory entry
Entry(i, store, book) == [id |-> i, store_id |-> store, book_id |-> book, price |-> 9]

\* inventory collections of up to MaxEntries entries over two stores, three books
Inventories ==
  UNION {[1..n -> {[store |-> st, book |-> b] : st \in {1, 2}, b \in {1, 2, 3}}]
           : n \in 0..MaxEntries}

\* the collection of a choice of (store, book) pairs
InventoryOf(pairs) ==
  [i \in 1..Len(pairs) |-> Entry(i, pairs[i].store, pairs[i].book)]

\* no function of the program is called while the pages are followed
NoCallState ==
  /\ pc = "running"
  /\ user = None
  /\ storage = None
  /\ pending = << >>
  /\ last = NoOp
  /\ lastEvent = "none"
  /\ beforeReload = [user |-> None, by |-> "none"]
  /\ latestOK = None
  /\ cleanLogout = FALSE
  /\ storeId = "1"
  /\ inventory = << >>
  /\ page = << >>
  /\ columnsMemo = << >>
  /\ invLast = << >>
  /\ saves = 0
  /\ route = "/"
  /\ nav = NoNav

\* the calls of availableBooks
AvailableBooksCalls ==
  {[fn |-> "availableBooks", bks |-> c, inv |-> InventoryOf(pairs), sid |-> sid]
     : c \in {d \in Catalogs : Len(d) <= 3}, pairs \in Inventories, sid \in StoreIds}

\* what is typed into the dialog's search box
CallTerms == { << >>, <<"d", "u">>, <<"D", "U">>, <<"k">>, <<"x">> }

\* the calls of filteredAvailableBooks
FilteredAvailableBooksCalls ==
  {[fn |-> "filteredAvailableBooks", avail |-> c, term |-> t]
     : c \in Catalogs, t \in CallTerms}

\* a digit as a character
Digit(k) == <<"0", "1", "2", "3", "4", "5", "6", "7", "8", "9">>[k + 1]

\* Number.prototype.toString of a natural number, as characters
RECURSIVE digitsOf(_)
digitsOf(n) == IF n < 10 THEN <<Digit(n)>> ELSE Append(digitsOf(n \div 10), Digit(n % 10))

\* a row of the inventory table: the book with its author's name and price,
\* and the entry and the store it comes from
SearchRow(store, book) ==
  [id |-> book, name |-> CatalogBook(book).name,
   author_name |-> authorMap[CatalogBook(book).author_id].name,
   page_count |-> CatalogBook(book).page_count, price |-> 9,
   store_id |-> store, entry_id |-> 70 + book]

\* the rows of a choice of (store, book) pairs
SearchRows(pairs) == [i \in 1..Len(pairs) |-> SearchRow(pairs[i].store, pairs[i].book)]

\* what is typed into the search bar
SearchBoxTerms ==
  { << >>, <<"d", "u">>, <<"D", "U">>, <<"k", "a">>, <<"1", "0">>, <<"2">>, <<"7">> }

\* variant: every value of the row is searched (Object.values)
filteredBooksAllValues(rows, searchTerm) ==
  IF searchTerm = << >> THEN rows
  ELSE SelectSeq(rows,
         LAMBDA book :
           LET search == toLowerCase(searchTerm)
           IN  \/ includes(toLowerCase(book.name), search)
               \/ includes(toLowerCase(book.author_name), search)
               \/ includes(digitsOf(book.page_count), search)
               \/ includes(digitsOf(book.id), search)
               \/ includes(digitsOf(book.price), search)
               \/ includes(digitsOf(book.store_id), search)
               \/ includes(digitsOf(book.entry_id), search))

\* filteredBooks: the rows the inventory search keeps
filteredBooks(rows, searchTerm) ==
  IF searchTerm = << >> THEN rows
  ELSE SelectSeq(rows,
         LAMBDA book :
           LET bookName == toLowerCase(book.name)
               authorName == toLowerCase(book.author_name)
               pageCount == digitsOf(book.page_count)
               bookId == digitsOf(book.id)
               search == toLowerCase(searchTerm)
           IN  \/ includes(bookName, search)
               \/ includes(authorName, search)
               \/ includes(pageCount, search)
               \/ includes(bookId, search))

\* the calls of filteredBooks
FilteredBooksCalls ==
  {[fn |-> "filteredBooks", rows |-> SearchRows(pairs), term |-> t]
     : pairs \in Inventories, t \in SearchBoxTerms}

\* the calls of fetchData, by what the request comes back with
FetchDataCalls == {[fn |-> "fetchData", resp |-> name] : name \in ResponseNames}

\* import.meta.env.VITE_API_MODE: not configured, or one of the three modes
EnvModes == {None, Some("local"), Some("mock"), Some("api")}

\* API_MODE: the configured mode, "api" when none is configured
API_MODE(env) == IF IsSome(env) THEN env[1] ELSE "api"

MOCK_API_URL == "http://localhost:3001"

BACKEND_API_URL == "https://your-backend-api.com/api"

\* the URL fetchData requests for an endpoint, as the parts of the template
url(mode, endpoint) ==
  IF mode = "api" THEN <<BACKEND_API_URL, "/", endpoint>>
  ELSE IF mode = "mock" THEN <<MOCK_API_URL, "/", endpoint>>
  ELSE <<"/data/", endpoint, ".json">>

\* the calls of fetchData's choice of URL
UrlCalls ==
  {[fn |-> "url", env |-> e, endpoint |-> ep]
     : e \in EnvModes, ep \in {"users", "books", "inventory"}}

\* BooksTable's columns: the prop isAuthenticated defaults to true
BooksTable(props) ==
  LET isAuth == IF IsSome(props.isAuthenticated) THEN props.isAuthenticated[1] ELSE TRUE
      baseColumns == <<"Book Id", "Name", "Pages", "Author">>
  IN  IF isAuth THEN Append(baseColumns, "Actions") ELSE baseColumns

\* the calls of BooksTable: the caller passes the session's flag or no flag
BooksTableCalls ==
  {[fn |-> "BooksTable", session |-> a, props |-> [isAuthenticated |-> f]]
     : a \in BOOLEAN, f \in {None, Some(TRUE), Some(FALSE)}}

Calls ==
  AvailableBooksCalls \cup FilteredAvailableBooksCalls \cup FilteredBooksCalls
    \cup FetchDataCalls \cup UrlCalls
    \cup {c \in BooksTableCalls :
            IsSome(c.props.isAuthenticated) => c.props.isAuthenticated[1] = c.session}

InitCalls ==
  /\ NoCallState
  /\ call \in Calls
  /\ result = None

CallAvailableBooks ==
  /\ call.fn = "availableBooks" /\ result = None
  /\ result' = Some(availableBooks(call.bks, call.inv, call.sid))
  /\ UNCHANGED <<authVars, pageVars, routeVars, call>>

CallFilteredAvailableBooks ==
  /\ call.fn = "filteredAvailableBooks" /\ result = None
  /\ result' = Some(filteredAvailableBooks(call.avail, call.term))
  /\ UNCHANGED <<authVars, pageVars, routeVars, call>>

CallFilteredBooks ==
  /\ call.fn = "filteredBooks" /\ result = None
  /\ result' = Some(filteredBooks(call.rows, call.term))
  /\ UNCHANGED <<authVars, pageVars, routeVars, call>>

CallFetchData ==
  /\ call.fn = "fetchData" /\ result = None
  /\ result' = Some(fetchData(Response(call.resp)))
  /\ UNCHANGED <<authVars, pageVars, routeVars, call>>

CallUrl ==
  /\ call.fn = "url" /\ result = None
  /\ result' = Some(url(API_MODE(call.env), call.endpoint))
  /\ UNCHANGED <<authVars, pageVars, routeVars, call>>

CallBooksTable ==
  /\ call.fn = "BooksTable" /\ result = None
  /\ result' = Some(BooksTable(call.props))
  /\ UNCHANGED <<authVars, pageVars, routeVars, call>>

NextCalls ==
  \/ CallAvailableBooks
  \/ CallFilteredAvailableBooks
  \/ CallFilteredBooks
  \/ CallFetchData
  \/ CallUrl
  \/ CallBooksTable

SpecCalls == InitCalls /\ [][NextCalls]_vars

(***************************************************************************)
(* Properties                                                              *)
(***************************************************************************)
\* the records of the user directory as the request named `name` fetched it:
\* none when the lookup failed
DirectoryAsFetched(name) ==
  LET r == Response(name)
  IN  IF r.rejected \/ ~r.ok \/ ~r.json THEN {}
      ELSE IF r.data.type = "array"
             THEN {r.data.items[i] : i \in 1..Len(r.data.items)}
             ELSE {r.data.obj}

LookupFailed(name) ==
  LET r == Response(name) IN r.rejected \/ ~r.ok \/ ~r.json

\* the credential material of the directory
Secrets == {Get(Directory[i], "password") : i \in 1..Len(Directory)}

\* the persisted value decodes to the identity v
DecodesTo(s, v) ==
  /\ IsSome(s)
  /\ JSONparse(s[1]).ok
  /\ JSONparse(s[1]).value = v

\* C1: for every sequence of login, logout and restore calls, isAuthenticated
\* is true exactly when the last operation that set the session was a login
\* that returned true or a restore that installed the persisted identity, and
\* no logout happened since; it is false initially and after every logout.
C1_AuthenticatedIffInstalled ==
  /\ isAuthenticated <=> lastEvent \in {"login", "restore"}
  /\ last.op \in {"Init", "Logout"} => ~isAuthenticated

\* C1 witness: a login whose lookup resolved in an empty session installed an identity
C1_Witness ==
  /\ last.op = "LoginResolve"
  /\ last.ret = "true"
  /\ last.preUser = None
  /\ isAuthenticated
  /\ lastEvent = "login"

\* C2: login(u, p) returns true if and only if the directory as fetched holds
\* a record whose username is exactly u and whose password is exactly p.
C2_LoginTrueIffRecordMatches ==
  last.op = "LoginResolve" =>
    (last.ret = "true" <=>
       \E rec \in DirectoryAsFetched(last.resp) :
         /\ Get(rec, "username") = last.cred[1]
         /\ Get(rec, "password") = last.cred[2])

\* C2 witness: a login whose username differs from a record's only in letter
\* case returned false against the full directory
C2_Witness ==
  /\ last.op = "LoginResolve"
  /\ last.resp = "users-array"
  /\ last.cred = <<"Admin", "admin123">>
  /\ last.ret = "false"

\* C3: a login that fails (no record matches, or the lookup fails) returns
\* false and leaves the session identity and the persisted value as they were.
C3_FailedLoginChangesNothing ==
  /\ last.op = "LoginResolve" /\ LookupFailed(last.resp) => last.ret = "false"
  /\ last.op = "LoginResolve" /\ last.ret = "false" =>
       /\ user = last.preUser
       /\ storage = last.preStorage

\* C3 witness: the lookup failed while a user was logged in
C3_Witness ==
  /\ last.op = "LoginResolve"
  /\ last.resp = "network-error"
  /\ last.ret = "false"
  /\ IsSome(last.preUser)
  /\ IsSome(last.preStorage)

\* C4: after a successful login the persisted value decodes to the installed
\* identity, and a restore at the next start-up yields that identity again,
\* authenticated, with no directory lookup issued.
C4_RestoreAfterLoginRoundTrip ==
  /\ last.op = "LoginResolve" /\ last.ret = "true" =>
       isAuthenticated /\ DecodesTo(storage, user[1])
  /\ last.op = "Restore" /\ beforeReload.by = "login" =>
       /\ isAuthenticated
       /\ user = beforeReload.user
       /\ pending = << >>

\* C4 witness: start-up restored the identity a login had installed before the reload
C4_Witness ==
  /\ last.op = "Restore"
  /\ beforeReload.by = "login"
  /\ user = Some(Identity(AdminRecord))

\* C5: neither the session identity nor the persisted value ever holds a
\* password field or a password of the directory.
C5_NoPasswordInSession ==
  /\ IsSome(user) =>
       \A i \in 1..Len(user[1]) :
         user[1][i][1] # "password" /\ user[1][i][2] \notin Secrets
  /\ IsSome(storage) =>
       \A i \in 1..Len(storage[1]) : storage[1][i] \notin {"password"} \cup Secrets

\* C5 witness: a login matched a directory record and installed its identity
C5_Witness ==
  /\ last.op = "LoginResolve"
  /\ last.ret = "true"
  /\ user = Some(Identity(UserRecord))
  /\ IsSome(storage)

\* C6: once the start-up restore has run, a persisted value is present if and
\* only if the session holds an identity, and it decodes to that identity.
C6_PersistedIffIdentity ==
  pc # "start" =>
    /\ IsSome(storage) <=> isAuthenticated
    /\ isAuthenticated => DecodesTo(storage, user[1])

\* C7: logout leaves the session empty and the persisted value erased from any
\* state, with or without an identity, and a second logout changes nothing more.
C7_LogoutAlwaysClears ==
  /\ last.op = "Logout" => user = None /\ storage = None /\ pc = "running"
  /\ LET once == logout(user, storage)
     IN  logout(once.user, once.storage) = once

\* C7 witness: logout was called with no identity present
C7_Witness ==
  /\ last.op = "Logout"
  /\ last.preUser = None
  /\ last.preStorage = None

\* C8: after a logout with no login since, a page reload and restore leave the
\* session unauthenticated.
C8_LogoutSurvivesReload ==
  cleanLogout => ~isAuthenticated /\ storage = None

\* C8 witness: a user was logged out, the page reloaded and the restore has run
C8_Witness ==
  /\ cleanLogout
  /\ last.op = "Restore"
  /\ pc = "running"

\* C9: a restore that finds a persisted value it cannot parse completes with
\* no identity, lets no error escape and deletes the persisted value.
C9_RestoreFailsOpen ==
  last.op = "Restore" /\ IsSome(last.preStorage) /\ ~JSONparse(last.preStorage[1]).ok =>
    /\ last.ret # "throw"
    /\ pc = "running"
    /\ ~isAuthenticated
    /\ storage = None

\* C10: when logins overlap, once none is in flight the session identity and
\* the persisted value are those of the latest-invoked login that succeeded,
\* whatever the order in which the lookups resolved.
C10_LatestInvokedLoginWins ==
  pending = << >> /\ IsSome(latestOK) =>
    /\ user = latestOK
    /\ DecodesTo(storage, latestOK[1])

\* C11: no other mutation of the session falls between a login's suspension
\* and its resumption: a login that was in flight when logout was called does
\* not install an identity or write the persisted value afterwards.
C11_NoInstallAfterLogout ==
  last.op = "LoginResolve" /\ last.loggedOut =>
    /\ user = last.preUser
    /\ storage = last.preStorage


ActionsColumnRendered == \E c \in 1..Len(columnsMemo) : columnsMemo[c] = "Actions"

\* C13: in every rendered state the Actions column is there exactly when the
\* session is authenticated: absent otherwise, and recomputed at every change
\* of the session.
C13_ActionsColumnIffAuthenticated == ActionsColumnRendered <=> isAuthenticated

\* the session was restored (column appears) and later ended (column is gone)
C13_Witness ==
  /\ last.op = "Logout"
  /\ IsSome(last.preUser)
  /\ ~isAuthenticated
  /\ ~ActionsColumnRendered


\* the entries of a collection for a (store id, book id) pair
EntriesOf(inv, store, book) ==
  {i \in 1..Len(inv) : inv[i].store_id = store /\ inv[i].book_id = book}

\* C14: after any sequence of add, edit-price and delete operations from a
\* collection without duplicate pairs, the collection holds at most one entry
\* per (store id, book id) pair.
C14_OneEntryPerPair ==
  \A i, j \in 1..Len(inventory) :
    inventory[i].store_id = inventory[j].store_id
      /\ inventory[i].book_id = inventory[j].book_id => i = j

\* C15: an add for a (store id, book id) pair that already has an entry is
\* rejected and leaves the collection unchanged.
C15_DuplicateAddRejected ==
  invLast.op = "add" /\ EntriesOf(invLast.pre, invLast.store, invLast.book) # {} =>
    inventory = invLast.pre

\* C16: a successful add gives the new entry an id strictly greater than every
\* id in the collection at that moment (1 when it is empty), so all ids of the
\* collection stay pairwise distinct.
C16_FreshEntryId ==
  /\ invLast.op = "add" /\ inventory # invLast.pre =>
       /\ \A i \in 1..Len(invLast.pre) : inventory[Len(inventory)].id > invLast.pre[i].id
       /\ invLast.pre = << >> => inventory[1].id = 1
  /\ \A i, j \in 1..Len(inventory) : inventory[i].id = inventory[j].id => i = j

\* C17: an add or edit-price with a price that is not a finite non-negative
\* number is rejected, so every entry's price is a non-negative number in
\* every reachable state.
C17_PricesNonNegative ==
  /\ \A i \in 1..Len(inventory) : inventory[i].price >= 0
  /\ invLast.op \in {"add", "edit"} /\ invLast.text = "-5" => inventory = invLast.pre


\* the last Save was an edit whose guard passed (a row and a price text)
EditApplied == invLast.op = "edit" /\ invLast.book # 0 /\ invLast.text # ""

\* the last Save was a delete whose guard passed (a row)
DeleteApplied == invLast.op = "delete" /\ invLast.book # 0

\* C18: a successful edit-price changes only the price of the one targeted
\* entry: ids, store ids and book ids stay, every other entry stays, and so do
\* the order and the size of the collection.
C18_EditChangesOnlyTarget ==
  EditApplied /\ EntriesOf(invLast.pre, invLast.store, invLast.book) # {} =>
    /\ Len(inventory) = Len(invLast.pre)
    /\ \A i \in 1..Len(inventory) :
         /\ inventory[i].id = invLast.pre[i].id
         /\ inventory[i].store_id = invLast.pre[i].store_id
         /\ inventory[i].book_id = invLast.pre[i].book_id
         /\ inventory[i] # invLast.pre[i] =>
              i \in EntriesOf(invLast.pre, invLast.store, invLast.book)
    /\ Cardinality({i \in 1..Len(inventory) : inventory[i] # invLast.pre[i]}) <= 1

\* C19: an edit-price or delete naming an entry that is not in the collection
\* is rejected as not found (it does not complete as a successful one does, by
\* closing its dialog) and leaves the collection and the session as they were.
C19_AbsentEntryRejected ==
  (EditApplied \/ DeleteApplied)
    /\ EntriesOf(invLast.pre, invLast.store, invLast.book) = {} =>
      /\ inventory = invLast.pre
      /\ isAuthenticated = invLast.auth
      /\ dialogOpen

AddApplied == invLast.op = "add" /\ invLast.book # 0 /\ invLast.text # ""

\* C21: a book deleted from a store is again among the store's available books,
\* and an add for a (store id, book id) pair that has no entry, as after the
\* delete, succeeds: it appends the entry of the pair.
C21_DeletedBookAddableAgain ==
  /\ DeleteApplied /\ EntriesOf(invLast.pre, invLast.store, invLast.book) # {} =>
       \E k \in 1..Len(availableBooks(books, inventory, storeId)) :
         availableBooks(books, inventory, storeId)[k].id = invLast.book
  /\ AddApplied /\ EntriesOf(invLast.pre, invLast.store, invLast.book) = {} =>
       /\ Len(inventory) = Len(invLast.pre) + 1
       /\ SubSeq(inventory, 1, Len(invLast.pre)) = invLast.pre
       /\ inventory[Len(inventory)].store_id = invLast.store
       /\ inventory[Len(inventory)].book_id = invLast.book

\* a pair the loaded collection held, and that is absent now only because it
\* was deleted, has just been added again
C21_Witness ==
  /\ AddApplied
  /\ \E i \in 1..Len(inventory), l \in InitialInventories :
       /\ \E j \in 1..Len(l) : l[j].store_id = invLast.store /\ l[j].book_id = invLast.book
       /\ inventory[i].store_id = invLast.store
       /\ inventory[i].book_id = invLast.book
  /\ EntriesOf(invLast.pre, invLast.store, invLast.book) = {}


(***************************************************************************)
(* Properties of the functions                                             *)
(***************************************************************************)
\* a function has returned
Returned(fn) == call.fn = fn /\ IsSome(result)

\* the places of a book in a sequence of books
PlacesOf(bks, book) == {i \in 1..Len(bks) : bks[i] = book}

\* C22: the available books of a store are exactly the catalog books without
\* an inventory entry for that store, in catalog order; the entries of other
\* stores exclude nothing.
C22_AvailableBooksExact ==
  Returned("availableBooks") =>
    LET out == result[1]
        stocked(book) == EntriesOf(call.inv, parseInt(call.sid), book.id) # {}
    IN  /\ \A i \in 1..Len(out) : PlacesOf(call.bks, out[i]) # {} /\ ~stocked(out[i])
        /\ \A i \in 1..Len(call.bks) :
             ~stocked(call.bks[i]) => Cardinality(PlacesOf(out, call.bks[i])) = 1
        /\ \A i, j \in 1..Len(out) :
             i < j => \E a \in PlacesOf(call.bks, out[i]), b \in PlacesOf(call.bks, out[j]) :
                        a < b

\* a book stocked only by the other store is available, one stocked by the
\* store is not, from a catalog that is not in id order
C22_Witness ==
  /\ Returned("availableBooks")
  /\ Len(call.bks) = 3 /\ call.bks[1].id = 3
  /\ \E i \in 1..Len(result[1]) :
       \E e \in 1..Len(call.inv) :
         call.inv[e].book_id = result[1][i].id /\ call.inv[e].store_id # parseInt(call.sid)
  /\ Len(result[1]) = 2


\* a text contains a term, whatever the case of either
ContainsIgnoringCase(chars, term) == includes(toLowerCase(chars), toLowerCase(term))

\* C23: the candidates of the add dialog are the first min(7, n) of the n
\* available books whose book name or author name contains the search term,
\* whatever the case, in catalog order: never more than 7, and all n when n is
\* at most 7.
C23_CandidatesByNameOrAuthor ==
  Returned("filteredAvailableBooks") =>
    LET matching ==
          SelectSeq(call.avail,
                    LAMBDA book :
                      \/ ContainsIgnoringCase(book.name, call.term)
                      \/ ContainsIgnoringCase(authorMap[book.author_id].name, call.term))
        n == Len(matching)
    IN  /\ Len(result[1]) <= 7
        /\ result[1] = SubSeq(matching, 1, IF n <= 7 THEN n ELSE 7)


\* a row shows the term in its book name, author name, page count or book id
ShowsTerm(row, term) ==
  \/ ContainsIgnoringCase(row.name, term)
  \/ ContainsIgnoringCase(row.author_name, term)
  \/ ContainsIgnoringCase(digitsOf(row.page_count), term)
  \/ ContainsIgnoringCase(digitsOf(row.id), term)

\* the rows of a sequence that are kept, by their places
RECURSIVE Kept(_, _, _)
Kept(rows, term, i) ==
  IF i > Len(rows) THEN << >>
  ELSE IF ShowsTerm(rows[i], term) THEN <<rows[i]>> \o Kept(rows, term, i + 1)
  ELSE Kept(rows, term, i + 1)

\* C24: the inventory search returns exactly the rows whose book name, author
\* name, page count or book id contains the term, whatever the case; a row
\* that has the term only in its entry id or store id is not returned, and the
\* empty term returns every row.
C24_SearchByFourFields ==
  Returned("filteredBooks") =>
    /\ result[1] = Kept(call.rows, call.term, 1)
    /\ \A i \in 1..Len(result[1]) : ShowsTerm(result[1][i], call.term)
    /\ call.term = << >> => result[1] = call.rows

\* a row with the term in its store id or entry id only is left out, while
\* another row is returned
C24_Witness ==
  /\ Returned("filteredBooks")
  /\ Len(result[1]) = 1 /\ Len(call.rows) = 2
  /\ \E i \in 1..Len(call.rows) :
       /\ ~ShowsTerm(call.rows[i], call.term)
       /\ \/ includes(digitsOf(call.rows[i].store_id), call.term)
          \/ includes(digitsOf(call.rows[i].entry_id), call.term)


(***************************************************************************)
(* Properties of the routes and the top bar                                *)
(***************************************************************************)
\* C25: while the session is authenticated the login screen is not shown, and
\* a navigation to the login route has ended at the home route; so does a
\* start-up on the login route once the persisted session is restored.
C25_LoginRouteRedirectsHome ==
  isAuthenticated =>
    /\ screen(route, isAuthenticated) # "Login"
    /\ route # "/login"
    /\ nav.to = "/login" => route = "/"

\* the application was opened on the login route with a persisted session
C25_Witness ==
  /\ nav = [to |-> "/login", by |-> "url"]
  /\ last.op = "Restore"
  /\ isAuthenticated
  /\ route = "/"

C26_FetchDataAlwaysSequence ==
  Returned("fetchData") =>
    LET resp == Response(call.resp)
        failed == resp.rejected \/ ~resp.ok \/ ~resp.json
    IN  /\ result[1].type = "array"
        /\ failed => result[1].items = << >>
        /\ ~failed /\ resp.data.type = "object" => result[1].items = <<resp.data.obj>>
        /\ ~failed /\ resp.data.type = "array" => result[1].items = resp.data.items

\* the body was a single object
C26_Witness ==
  /\ Returned("fetchData")
  /\ call.resp = "single-object"
  /\ Len(result[1].items) = 1

\* C27: the mode alone chooses the source: "api" the backend URL, "mock" the
\* mock server URL, "local" the static JSON file of the resource; with no
\* mode configured the source is the local one.
C27_SourceByMode ==
  Returned("url") =>
    LET mode == IF IsSome(call.env) THEN call.env[1] ELSE "local"
    IN  /\ mode = "api" => result[1] = <<"https://your-backend-api.com/api", "/", call.endpoint>>
        /\ mode = "mock" => result[1] = <<"http://localhost:3001", "/", call.endpoint>>
        /\ mode = "local" => result[1] = <<"/data/", call.endpoint, ".json">>

\* C28: the books table has its Actions column only for an authenticated
\* session, also when the caller passes no authentication flag.
C28_BooksTableActionsOnlyAuthenticated ==
  Returned("BooksTable") /\ ~call.session =>
    \A c \in 1..Len(result[1]) : result[1][c] # "Actions"

====
